---- MODULE Spec2Model ----
(***************************************************************************)
(* CacheManager (src/unnamed/part_003): the entry Map, the access order,   *)
(* the metrics, the emitted events, the listeners, the localStorage mirror *)
(* and the in-flight getOrSet calls of one cache instance, as a state      *)
(* machine.  Time is Date.now() in abstract milliseconds.                  *)
(***************************************************************************)
EXTENDS Integers, Sequences, FiniteSets, TLC

\* ---------------------------------------------------------------- bounds
MaxTime == 3        \* Date.now() ranges over 1..MaxTime
MaxOps == 3         \* operations run on one cache under Spec
MaxCallOps == 1     \* set and get calls made around the getOrSet calls under SpecGetOrSet
MaxLifeOps == 3     \* operations run on one cache under SpecLifecycle
MaxDurableOps == 3  \* operations run on one cache under SpecDurable
MaxCount == 8       \* hits and misses counted before getStats under SpecStats
MaxFetches == 4     \* fetchSummary calls made under SpecWikiApi
MaxTimerOps == 3    \* calls made between the runs of the cleanup timer under SpecTimer
MaxTwinOps == 3     \* calls made on each of the two caches under SpecTwin
MaxSharedOps == 3   \* calls made on the caches of one localStorage under SpecShared

\* ---------------------------------------------------------------- values
\* JS null for a number-valued option or field (ttl, customTTL, expiresAt).
Null == -1
\* JS null as a cached value or a return value.
JSNull == "null"
\* JS undefined as a cached value.
JSUndefined == "undefined"
Keys == {"a", "b", "c"}
Values == {"v1", JSNull}
\* The configurations of the spec's data model: maxSize a positive integer,
\* ttl null or a non-negative duration, strategy recency or insertion order.
MaxSizes == {1, 2}
Strategies == {"lru", "fifo"}
\* What the constructor takes for options.strategy: any string.
AnyStrategies == Strategies \cup {"random"}
\* options.ttl: none, or a duration.
CacheTTLs == {Null, 1}
\* customTTL: not given, zero, or a duration.
TTLs == {Null, 0, 1}
Callers == {1, 2}
\* The keys getOrSet is called with.
CallKeys == {"a", "b"}
\* What set takes for value under SpecLifecycle: any JS value.
AnyValues == Values \cup {JSUndefined}
\* The event types handlers are registered for with on().
ListenTypes == {"set", "clear"}
\* this.namespace, as its characters.
Namespace == <<"n">>

VARIABLES
  options,      \* this.options: maxSize, ttl, strategy, enableMetrics
  cache,        \* this.cache: the Map, as the sequence of its entries in Map order
  accessOrder,  \* this.accessOrder
  metrics,      \* this.metrics
  now,          \* Date.now()
  calls,        \* the getOrSet calls: position, key, customTTL, outcome
  last,         \* the last operation run: name, key, return value, peak Map size
  emitted,      \* the events the last operation emitted, in order
  ops,          \* the number of operations run since construction
  trace,        \* the operations run since construction, while they follow a script
  localStorage, \* window.localStorage: its items, and whether its methods throw
  listeners,    \* the event types with a handler registered on this.emitter
  atDestroy,    \* the handlers that were registered when destroy() was called
  destroyed,    \* whether destroy() has been called on this cache
  twin,         \* a second cache, constructed with the other enableMetrics
  stats         \* what the last getStats() returned

vars == <<options, cache, accessOrder, metrics, now, calls, last, emitted, ops, trace,
          localStorage, listeners, atDestroy, destroyed, twin, stats>>

Max(a, b) == IF a >= b THEN a ELSE b
Min(a, b) == IF a <= b THEN a ELSE b

\* JS truthiness of a number-or-null.
Truthy(n) == n # Null /\ n # 0

\* ---------------------------------------------------------------- Map
HasKey(c, k) == \E i \in 1 .. Len(c) : c[i].key = k
MapGet(c, k) == c[CHOOSE i \in 1 .. Len(c) : c[i].key = k]
MapDelete(c, k) == SelectSeq(c, LAMBDA e : e.key # k)
\* Map.set keeps the position of a key that is present and appends a new one.
MapSet(c, k, e) ==
  IF HasKey(c, k)
  THEN [i \in 1 .. Len(c) |-> IF c[i].key = k THEN e ELSE c[i]]
  ELSE Append(c, e)
MapKeys(c) == {c[i].key : i \in 1 .. Len(c)}
SeqSet(s) == {s[i] : i \in 1 .. Len(s)}

\* ---------------------------------------------------------------- this
\* The object an operation works on: the fields it changes, the events it
\* has emitted so far, its return value, and the largest Map size seen.
Self == [cache |-> cache, accessOrder |-> accessOrder, metrics |-> metrics,
         items |-> localStorage.items, enableMetrics |-> options.enableMetrics,
         ev |-> <<>>, ret |-> "void", peak |-> Len(cache)]

Observe(S) == [S EXCEPT !.peak = Max(@, Len(S.cache))]
Emit(S, type, k, n) == [S EXCEPT !.ev = Append(@, [type |-> type, key |-> k, n |-> n])]
Return(S, r) == [S EXCEPT !.ret = r]

\* _isExpired without the `entry.expiresAt &&` guard: null compares as 0.
_isExpired_noNullCheck(entry) == now > Max(entry.expiresAt, 0)

\* _isExpired with >= : an entry is dead from the instant expiresAt on.
_isExpired_atExpiry(entry) == Truthy(entry.expiresAt) /\ now >= entry.expiresAt

_isExpired(entry) == Truthy(entry.expiresAt) /\ now > entry.expiresAt

_removeFromAccessOrder(ao, k) ==
  IF \E i \in 1 .. Len(ao) : ao[i] = k
  THEN LET i == CHOOSE j \in 1 .. Len(ao) :
                  ao[j] = k /\ \A h \in 1 .. j - 1 : ao[h] # k
       IN SubSeq(ao, 1, i - 1) \o SubSeq(ao, i + 1, Len(ao))
  ELSE ao

\* _updateAccessOrder that pushes new keys only and leaves a present key in place.
_updateAccessOrder_keepPosition(ao, k) ==
  IF \E i \in 1 .. Len(ao) : ao[i] = k THEN ao ELSE Append(ao, k)

\* _updateAccessOrder without the removal: the key is pushed again.
_updateAccessOrder_pushOnly(ao, k) == Append(ao, k)

\* _updateAccessOrder that puts the key at the head.
_updateAccessOrder_toFront(ao, k) == <<k>> \o _removeFromAccessOrder(ao, k)

_updateAccessOrder(ao, k) == Append(_removeFromAccessOrder(ao, k), k)

_recordHit(S, k) ==
  IF S.enableMetrics
  THEN Emit([S EXCEPT !.metrics.hits = @ + 1], "hit", k, 0)
  ELSE S

_recordMiss(S, k) ==
  IF S.enableMetrics
  THEN Emit([S EXCEPT !.metrics.misses = @ + 1], "miss", k, 0)
  ELSE S

\* get whose expiry branch forgets _removeFromAccessOrder.
get_expiredKeepsOrder(S, k) ==
  IF ~HasKey(S.cache, k)
  THEN Return(_recordMiss(S, k), JSNull)
  ELSE IF _isExpired(MapGet(S.cache, k))
  THEN LET S1 == [S EXCEPT !.cache = MapDelete(@, k)]
       IN Return(Emit(_recordMiss(S1, k), "expired", k, 0), JSNull)
  ELSE LET e == [MapGet(S.cache, k) EXCEPT !.lastAccessed = now]
           S1 == [S EXCEPT !.cache = MapSet(@, k, e),
                           !.accessOrder = _updateAccessOrder(@, k)]
       IN Return(_recordHit(S1, k), e.value)

\* get whose hit renews the entry's TTL.
get_renewsTTL(S, k) ==
  IF ~HasKey(S.cache, k)
  THEN Return(_recordMiss(S, k), JSNull)
  ELSE IF _isExpired(MapGet(S.cache, k))
  THEN LET S1 == [S EXCEPT !.cache = MapDelete(@, k),
                           !.accessOrder = _removeFromAccessOrder(@, k)]
       IN Return(Emit(_recordMiss(S1, k), "expired", k, 0), JSNull)
  ELSE LET old == MapGet(S.cache, k)
           e == [old EXCEPT !.lastAccessed = now,
                            !.expiresAt = IF @ = Null THEN Null
                                          ELSE now + (old.expiresAt - old.createdAt)]
           S1 == [S EXCEPT !.cache = MapSet(@, k, e),
                           !.accessOrder = _updateAccessOrder(@, k)]
       IN Return(_recordHit(S1, k), e.value)

\* get that reports an expiry on every read that finds no entry.
get_absentExpired(S, k) ==
  IF ~HasKey(S.cache, k)
  THEN Return(Emit(_recordMiss(S, k), "expired", k, 0), JSNull)
  ELSE IF _isExpired(MapGet(S.cache, k))
  THEN LET S1 == [S EXCEPT !.cache = MapDelete(@, k),
                           !.accessOrder = _removeFromAccessOrder(@, k)]
       IN Return(Emit(_recordMiss(S1, k), "expired", k, 0), JSNull)
  ELSE LET e == [MapGet(S.cache, k) EXCEPT !.lastAccessed = now]
           S1 == [S EXCEPT !.cache = MapSet(@, k, e),
                           !.accessOrder = _updateAccessOrder(@, k)]
       IN Return(_recordHit(S1, k), e.value)

\* get that moves the key to the tail of the access order only when the
\* metrics are on.
get_gatedTouch(S, k) ==
  IF ~HasKey(S.cache, k)
  THEN Return(_recordMiss(S, k), JSNull)
  ELSE IF _isExpired(MapGet(S.cache, k))
  THEN LET S1 == [S EXCEPT !.cache = MapDelete(@, k),
                           !.accessOrder = _removeFromAccessOrder(@, k)]
       IN Return(Emit(_recordMiss(S1, k), "expired", k, 0), JSNull)
  ELSE LET e == [MapGet(S.cache, k) EXCEPT !.lastAccessed = now]
           S1 == [S EXCEPT !.cache = MapSet(@, k, e),
                           !.accessOrder = IF S.enableMetrics
                                           THEN _updateAccessOrder(@, k) ELSE @]
       IN Return(_recordHit(S1, k), e.value)

get(S, k) ==
  IF ~HasKey(S.cache, k)
  THEN Return(_recordMiss(S, k), JSNull)
  ELSE IF _isExpired(MapGet(S.cache, k))
  THEN LET S1 == [S EXCEPT !.cache = MapDelete(@, k),
                           !.accessOrder = _removeFromAccessOrder(@, k)]
       IN Return(Emit(_recordMiss(S1, k), "expired", k, 0), JSNull)
  ELSE LET e == [MapGet(S.cache, k) EXCEPT !.lastAccessed = now]
           S1 == [S EXCEPT !.cache = MapSet(@, k, e),
                           !.accessOrder = _updateAccessOrder(@, k)]
       IN Return(_recordHit(S1, k), e.value)

\* Array.prototype.sort by createdAt: stable, so ties keep Map order.
RECURSIVE SortByCreatedAt(_)
SortByCreatedAt(c) ==
  IF Len(c) <= 1 THEN c
  ELSE LET rest == SortByCreatedAt(Tail(c))
           h == Head(c)
           \* h goes before the first element of rest that is not smaller... keeping
           \* h ahead of every equal element that followed it in the input
           n == Cardinality({i \in 1 .. Len(rest) : rest[i].createdAt < h.createdAt})
       IN SubSeq(rest, 1, n) \o <<h>> \o SubSeq(rest, n + 1, Len(rest))

\* _evictItems whose fifo branch takes the head of the access order, as lru does.
ToEvict_fifoByAccess(S, count) ==
  SubSeq(S.accessOrder, 1, Min(count, Len(S.accessOrder)))

\* The keys _evictItems picks, in the order it removes them.
ToEvict(S, count) ==
  IF options.strategy = "lru"
  THEN SubSeq(S.accessOrder, 1, Min(count, Len(S.accessOrder)))
  ELSE IF options.strategy = "fifo"
  THEN LET sorted == SortByCreatedAt(S.cache)
           entries == SubSeq(sorted, 1, Min(count, Len(sorted)))
       IN [i \in 1 .. Len(entries) |-> entries[i].key]
  ELSE <<>>

\* One turn of the loop of _evictItems: cache.delete, _removeFromAccessOrder,
\* evictions++, emit.  The event carries, as n, what this.cache.has(key)
\* gives a handler at the moment it is dispatched (1 if stored, 0 if not).
EvictOne(S, k) ==
  LET S1 == [S EXCEPT !.cache = MapDelete(@, k)]
      S2 == [S1 EXCEPT !.accessOrder = _removeFromAccessOrder(@, k)]
      S3 == [S2 EXCEPT !.metrics.evictions = @ + 1]
  IN Emit(Observe(S3), "evict", k, IF HasKey(S3.cache, k) THEN 1 ELSE 0)

RECURSIVE EvictAll(_, _)
EvictAll(S, ks) ==
  IF ks = <<>> THEN S ELSE EvictAll(EvictOne(S, Head(ks)), Tail(ks))

_evictItems(S, count) == EvictAll(S, ToEvict(S, count))

\* The entry set builds: ttl = customTTL || options.ttl, expiresAt = ttl ? now + ttl : null.
NewEntry(k, v, customTTL) ==
  LET ttl == IF Truthy(customTTL) THEN customTTL ELSE options.ttl
  IN [key |-> k, value |-> v, createdAt |-> now, lastAccessed |-> now,
      expiresAt |-> IF Truthy(ttl) THEN now + ttl ELSE Null]

\* ---------------------------------------------------------------- localStorage
IsPrefix(s, t) == Len(s) <= Len(t) /\ SubSeq(t, 1, Len(s)) = s
\* The key a cache of namespace n finds for the item that a cache of
\* namespace n:x saved for its key a.
SiblingKey == "x:a"
\* A key as its characters (the keys of Keys have one).
KeyChars(k) == IF k = SiblingKey THEN <<"x", ":", "a">> ELSE <<k>>
\* `cache:${this.namespace}:`
StoragePrefix == <<"cache", ":">> \o Namespace \o <<":">>
\* _getLocalStorageKey that leaves the namespace out.
_getLocalStorageKey_noNamespace(k) == <<"cache", ":">> \o KeyChars(k)

_getLocalStorageKey(k) == StoragePrefix \o KeyChars(k)
\* JSON.stringify(entry): the entry's own properties, as text.
JSONstringify(e) ==
  [json |-> <<e.value, e.createdAt, e.lastAccessed, e.expiresAt>>]
setItem(items, sk, text) == {x \in items : x.key # sk} \cup {[key |-> sk, item |-> text]}
removeItem(items, sk) == {x \in items : x.key # sk}

\* Each method wraps its localStorage calls in try/catch: when they throw,
\* nothing is written and the error goes to console.debug.
_saveToLocalStorage(S, k, e) ==
  IF localStorage.throws THEN S
  ELSE [S EXCEPT !.items = setItem(@, _getLocalStorageKey(k), JSONstringify(e))]

_deleteFromLocalStorage(S, k) ==
  IF localStorage.throws THEN S
  ELSE [S EXCEPT !.items = removeItem(@, _getLocalStorageKey(k))]

_clearLocalStorage(S) ==
  IF localStorage.throws THEN S
  ELSE [S EXCEPT !.items = {x \in @ : ~IsPrefix(StoragePrefix, x.key)}]

\* JSON.parse(data): the entry the text was made from.
JSONparse(text) ==
  [value |-> text.json[1], createdAt |-> text.json[2],
   lastAccessed |-> text.json[3], expiresAt |-> text.json[4]]
\* storageKey.replace(`cache:${this.namespace}:`, ''), as a string: the key
\* whose characters follow the prefix.
CacheKeyOf(sk) ==
  CHOOSE k \in Keys \cup {SiblingKey} :
    KeyChars(k) = SubSeq(sk, Len(StoragePrefix) + 1, Len(sk))
\* The items under the prefix, in each order localStorage.key(i) can list them.
OwnItems(items) == {x \in items : IsPrefix(StoragePrefix, x.key)}
Orders(set) ==
  {o \in [1 .. Cardinality(set) -> set] :
     \A i, j \in 1 .. Cardinality(set) : o[i] = o[j] => i = j}

\* The loop body without the _isExpired test: every entry is loaded.
LoadOne_keepDead(S, x) ==
  LET entry == JSONparse(x.item)
      cacheKey == CacheKeyOf(x.key)
      e == [key |-> cacheKey, value |-> entry.value, createdAt |-> entry.createdAt,
            lastAccessed |-> entry.lastAccessed, expiresAt |-> entry.expiresAt]
  IN [S EXCEPT !.cache = MapSet(@, cacheKey, e),
               !.accessOrder = _updateAccessOrder(@, cacheKey)]

\* The second loop of _loadFromLocalStorage: a live entry goes into the Map
\* and to the tail of the access order, a dead one is removed from localStorage.
LoadOne(S, x) ==
  LET entry == JSONparse(x.item)
      cacheKey == CacheKeyOf(x.key)
      e == [key |-> cacheKey, value |-> entry.value, createdAt |-> entry.createdAt,
            lastAccessed |-> entry.lastAccessed, expiresAt |-> entry.expiresAt]
  IN IF ~_isExpired(entry)
     THEN [S EXCEPT !.cache = MapSet(@, cacheKey, e),
                    !.accessOrder = _updateAccessOrder(@, cacheKey)]
     ELSE [S EXCEPT !.items = removeItem(@, x.key)]

RECURSIVE LoadAll(_, _)
LoadAll(S, order) ==
  IF order = <<>> THEN S ELSE LoadAll(LoadOne(S, Head(order)), Tail(order))

\* When localStorage throws the catch logs a warning and nothing is loaded.
_loadFromLocalStorage(S, order) ==
  IF localStorage.throws THEN S ELSE LoadAll(S, order)

\* set that inserts first and evicts afterwards, once the Map exceeds maxSize.
set_insertThenEvict(S, k, v, customTTL) ==
  LET S1 == Observe([S EXCEPT !.cache = MapSet(@, k, NewEntry(k, v, customTTL)),
                              !.accessOrder = _updateAccessOrder(@, k)])
      S2 == IF Len(S1.cache) > options.maxSize THEN _evictItems(S1, 1) ELSE S1
      S2a == IF options.useLocalStorage
             THEN _saveToLocalStorage(S2, k, NewEntry(k, v, customTTL))
             ELSE S2
      S3 == [S2a EXCEPT !.metrics.sets = @ + 1]
  IN Return(Emit(S3, "set", k, Len(S3.cache)), "true")

\* set that evicts whenever the Map is full, for a key that is present too.
set_evictsOnOverwrite(S, k, v, customTTL) ==
  LET S1 == IF Len(S.cache) >= options.maxSize THEN _evictItems(S, 1) ELSE S
      S2 == Observe([S1 EXCEPT !.cache = MapSet(@, k, NewEntry(k, v, customTTL)),
                               !.accessOrder = _updateAccessOrder(@, k)])
      S2a == IF options.useLocalStorage
             THEN _saveToLocalStorage(S2, k, NewEntry(k, v, customTTL))
             ELSE S2
      S3 == [S2a EXCEPT !.metrics.sets = @ + 1]
  IN Return(Emit(S3, "set", k, Len(S3.cache)), "true")

\* set that keeps the createdAt of the entry it overwrites.
set_keepsCreatedAt(S, k, v, customTTL) ==
  LET S1 == IF Len(S.cache) >= options.maxSize /\ ~HasKey(S.cache, k)
            THEN _evictItems(S, 1)
            ELSE S
      new == NewEntry(k, v, customTTL)
      e == IF HasKey(S1.cache, k)
           THEN [new EXCEPT !.createdAt = MapGet(S1.cache, k).createdAt]
           ELSE new
      S2 == Observe([S1 EXCEPT !.cache = MapSet(@, k, e),
                               !.accessOrder = _updateAccessOrder(@, k)])
      S2a == IF options.useLocalStorage THEN _saveToLocalStorage(S2, k, e) ELSE S2
      S3 == [S2a EXCEPT !.metrics.sets = @ + 1]
  IN Return(Emit(S3, "set", k, Len(S3.cache)), "true")

set(S, k, v, customTTL) ==
  LET S1 == IF Len(S.cache) >= options.maxSize /\ ~HasKey(S.cache, k)
            THEN _evictItems(S, 1)
            ELSE S
      S2 == Observe([S1 EXCEPT !.cache = MapSet(@, k, NewEntry(k, v, customTTL)),
                               !.accessOrder = _updateAccessOrder(@, k)])
      S2a == IF options.useLocalStorage
             THEN _saveToLocalStorage(S2, k, NewEntry(k, v, customTTL))
             ELSE S2
      S3 == [S2a EXCEPT !.metrics.sets = @ + 1]
  IN Return(Emit(S3, "set", k, Len(S3.cache)), "true")

\* has that reads through get, with its recency update, expiry removal and counters.
has_asGet(S, k) == get(S, k)

has(S, k) ==
  IF ~HasKey(S.cache, k) THEN Return(S, "undefined")
  ELSE IF _isExpired(MapGet(S.cache, k)) THEN Return(S, "false")
  ELSE Return(S, "true")

\* delete that leaves the key in the access order.
delete_keepsOrder(S, k) ==
  IF HasKey(S.cache, k)
  THEN Return(Emit([S EXCEPT !.cache = MapDelete(@, k)], "delete", k, 0), "true")
  ELSE Return(S, "false")

delete(S, k) ==
  IF HasKey(S.cache, k)
  THEN LET S1 == [S EXCEPT !.cache = MapDelete(@, k),
                           !.accessOrder = _removeFromAccessOrder(@, k)]
           S2 == IF options.useLocalStorage THEN _deleteFromLocalStorage(S1, k) ELSE S1
       IN Return(Emit(S2, "delete", k, 0), "true")
  ELSE Return(S, "false")

\* clear that empties the Map and forgets the access order.
clear_keepsOrder(S) ==
  Emit([S EXCEPT !.cache = <<>>], "clear", "", Len(S.cache))

\* clear that starts the counters again.
clear_resetsMetrics(S) ==
  LET S1 == [S EXCEPT !.cache = <<>>, !.accessOrder = <<>>,
                      !.metrics = [hits |-> 0, misses |-> 0, sets |-> 0,
                                   evictions |-> 0, errors |-> 0]]
  IN Emit(S1, "clear", "", Len(S.cache))

clear(S) ==
  LET S1 == [S EXCEPT !.cache = <<>>, !.accessOrder = <<>>]
      S2 == IF options.useLocalStorage THEN _clearLocalStorage(S1) ELSE S1
  IN Emit(S2, "clear", "", Len(S.cache))

\* ---------------------------------------------------------------- getStats
\* JSON.stringify(value).length: '"v1"' and 'null' have four characters;
\* JSON.stringify(undefined) is undefined, and reading its length throws.
Stringifies(v) == v # JSUndefined
JSONlength(v) == IF v = JSNull THEN Len(<<"n", "u", "l", "l">>) ELSE Len(<<"q", "v", "1", "q">>)

\* key.length * 2 + JSON.stringify(entry.value).length * 2 + 64, summed over the Map.
RECURSIVE _estimateMemoryUsage(_)
_estimateMemoryUsage(c) ==
  IF c = <<>> THEN 0
  ELSE Len(KeyChars(Head(c).key)) * 2 + JSONlength(Head(c).value) * 2 + 64
       + _estimateMemoryUsage(Tail(c))

\* Math.floor in place of Math.round.
MathFloor(n, d) == n \div d

\* Math.round(n / d) for n >= 0, d > 0: the nearest integer, a half going up.
\* (In doubles, hits / (hits + misses) * 100 * 100 is within an ulp of the
\* exact quotient, so the two agree except at an exact half.)
MathRound(n, d) == (2 * n + d) \div (2 * d)

\* getStats: hitRate is a percentage with two decimals, here in hundredths
\* of a percent (7500 is 75.00).
getStats(S) ==
  LET hits == S.metrics.hits
      misses == S.metrics.misses
      hitRate == IF hits + misses > 0 THEN MathRound(hits * 100 * 100, hits + misses) ELSE 0
  IN IF \E i \in 1 .. Len(S.cache) : ~Stringifies(S.cache[i].value)
     THEN [throws |-> TRUE, stats |-> stats]
     ELSE [throws |-> FALSE,
           stats |-> [size |-> Len(S.cache), maxSize |-> options.maxSize,
                      hitRate |-> hitRate, hits |-> hits, misses |-> misses,
                      sets |-> S.metrics.sets, evictions |-> S.metrics.evictions,
                      errors |-> S.metrics.errors,
                      memoryEstimate |-> _estimateMemoryUsage(S.cache)]]

RECURSIVE DeleteAll(_, _)
DeleteAll(S, ks) ==
  IF ks = <<>> THEN S ELSE DeleteAll(delete(S, Head(ks)), Tail(ks))

\* _cleanupExpired that stops after the first dead entry.
_cleanupExpired_first(S) ==
  LET dead == SelectSeq(S.cache, _isExpired)
      keysToDelete == IF dead = <<>> THEN <<>> ELSE <<dead[1].key>>
      S1 == Return(DeleteAll(S, keysToDelete), "void")
  IN IF Len(keysToDelete) > 0 THEN Emit(S1, "cleanup", "", Len(keysToDelete)) ELSE S1

_cleanupExpired(S) ==
  LET dead == SelectSeq(S.cache, _isExpired)
      keysToDelete == [i \in 1 .. Len(dead) |-> dead[i].key]
      S1 == Return(DeleteAll(S, keysToDelete), "void")
  IN IF Len(keysToDelete) > 0 THEN Emit(S1, "cleanup", "", Len(keysToDelete)) ELSE S1

\* ---------------------------------------------------------------- actions
NoCall == [pc |-> "idle", key |-> "", ttl |-> Null, missed |-> FALSE, peers |-> {},
           kind |-> "none", res |-> JSNull, by |-> 0]

NoStats == [size |-> 0, maxSize |-> 0, hitRate |-> 0, hits |-> 0, misses |-> 0,
            sets |-> 0, evictions |-> 0, errors |-> 0, memoryEstimate |-> 0]

NoMetrics == [hits |-> 0, misses |-> 0, sets |-> 0, evictions |-> 0, errors |-> 0]
\* The second cache after construction: empty, nothing returned yet.
NoTwin == [cache |-> <<>>, accessOrder |-> <<>>, metrics |-> NoMetrics,
           ev |-> <<>>, ret |-> "void"]

\* What the constructor leaves, whatever the options.
Constructed ==
  /\ cache = <<>>
  /\ accessOrder = <<>>
  /\ metrics = [hits |-> 0, misses |-> 0, sets |-> 0, evictions |-> 0, errors |-> 0]
  /\ now = 1
  /\ calls = [c \in Callers |-> NoCall]
  /\ last = [op |-> "new", key |-> "", ret |-> "void", peak |-> 0]
  /\ emitted = <<>>
  /\ ops = 0
  /\ trace = <<>>
  /\ listeners = {}
  /\ atDestroy = {}
  /\ destroyed = FALSE
  /\ twin = NoTwin
  /\ stats = NoStats

\* A cache with a strategy of the documentation, without the localStorage mirror.
Init ==
  /\ options \in [maxSize : MaxSizes, ttl : CacheTTLs, strategy : Strategies,
                  useLocalStorage : {FALSE}, enableMetrics : BOOLEAN]
  /\ localStorage = [items |-> {}, throws |-> FALSE]
  /\ Constructed

\* A new page load: new CacheManager(namespace, options) on the localStorage
\* the previous one left, _init loading from it if useLocalStorage.
Reload ==
  \E order \in Orders(OwnItems(localStorage.items)) :
    LET S0 == [cache |-> <<>>, accessOrder |-> <<>>, metrics |-> NoMetrics,
               items |-> localStorage.items, enableMetrics |-> options.enableMetrics,
               ev |-> <<>>, ret |-> "void", peak |-> 0]
        S == IF options.useLocalStorage THEN _loadFromLocalStorage(S0, order) ELSE S0
    IN /\ cache' = S.cache
       /\ accessOrder' = S.accessOrder
       /\ metrics' = S.metrics
       /\ localStorage' = [localStorage EXCEPT !.items = S.items]
       /\ emitted' = <<>>
       /\ last' = [op |-> "new", key |-> "", ret |-> "void", peak |-> Len(S.cache)]
       /\ calls' = [c \in Callers |-> NoCall]
       /\ listeners' = {}
       /\ atDestroy' = {}
       /\ destroyed' = FALSE
       /\ stats' = NoStats
       /\ UNCHANGED <<options, now>>

Commit(S, op, k) ==
  /\ localStorage' = [localStorage EXCEPT !.items = S.items]
  /\ cache' = S.cache
  /\ accessOrder' = S.accessOrder
  /\ metrics' = S.metrics
  /\ emitted' = S.ev
  /\ last' = [op |-> op, key |-> k, ret |-> S.ret, peak |-> S.peak]

CallGet(k) ==
  /\ Commit(get(Self, k), "get", k)
  /\ UNCHANGED <<options, now, calls, listeners, atDestroy, destroyed, stats>>

CallSet(k, v, customTTL) ==
  /\ Commit(set(Self, k, v, customTTL), "set", k)
  /\ UNCHANGED <<options, now, calls, listeners, atDestroy, destroyed, stats>>

CallHas(k) ==
  /\ Commit(has(Self, k), "has", k)
  /\ UNCHANGED <<options, now, calls, listeners, atDestroy, destroyed, stats>>

CallDelete(k) ==
  /\ Commit(delete(Self, k), "delete", k)
  /\ UNCHANGED <<options, now, calls, listeners, atDestroy, destroyed, stats>>

CallClear ==
  /\ Commit(clear(Self), "clear", "")
  /\ UNCHANGED <<options, now, calls, listeners, atDestroy, destroyed, stats>>

CallGetStats ==
  /\ stats' = getStats(Self).stats
  /\ last' = [op |-> "getStats", key |-> "",
              ret |-> IF getStats(Self).throws THEN "throw" ELSE "stats",
              peak |-> Len(cache)]
  /\ emitted' = <<>>
  /\ UNCHANGED <<options, cache, accessOrder, metrics, now, calls, localStorage,
                  listeners, atDestroy, destroyed>>

\* on(event, handler): Emitter.on adds the listener and returns its disposer.
CallOn(t) ==
  /\ t \notin listeners
  /\ listeners' = listeners \cup {t}
  /\ last' = [op |-> "on", key |-> t, ret |-> "function", peak |-> Len(cache)]
  /\ emitted' = <<>>
  /\ UNCHANGED <<options, cache, accessOrder, metrics, now, calls, localStorage,
                  atDestroy, destroyed, stats>>

\* The disposer on() returned is called: removeEventListener.
Unsubscribe(t) ==
  /\ t \in listeners
  /\ listeners' = listeners \ {t}
  /\ atDestroy' = atDestroy \ {t}
  /\ last' = [op |-> "unsubscribe", key |-> t, ret |-> "void", peak |-> Len(cache)]
  /\ emitted' = <<>>
  /\ UNCHANGED <<options, cache, accessOrder, metrics, now, calls, localStorage,
                  destroyed, stats>>

\* destroy: clear(), then this.emitter.removeAllListeners(), which Emitter
\* does not define: the call throws a TypeError and the listeners stay.
CallDestroy ==
  /\ Commit(Return(clear(Self), "throw"), "destroy", "")
  /\ atDestroy' = listeners
  /\ destroyed' = TRUE
  /\ UNCHANGED <<options, now, calls, listeners, stats>>

\* The setInterval callback of _setupTTLCleanup, which _init installs if options.ttl.
Sweep ==
  /\ Truthy(options.ttl)
  /\ Commit(_cleanupExpired(Self), "sweep", "")
  /\ UNCHANGED <<options, now, calls, listeners, atDestroy, destroyed, stats>>

\* Time passes between two operations.
Tick ==
  /\ now < MaxTime
  /\ now' = now + 1
  /\ last' = [op |-> "tick", key |-> "", ret |-> "void", peak |-> Len(cache)]
  /\ emitted' = <<>>
  /\ UNCHANGED <<options, cache, accessOrder, metrics, calls, ops, trace,
                  localStorage, listeners, atDestroy, destroyed, twin, stats>>

\* getOrSet from its call to the await of the factory: get(key) runs, and if
\* it returned null the factory is called and awaited; any other value is
\* returned.  (The continuation after `await this.get(key)` reads and writes
\* nothing but this call's own locals, so it commutes with every other step.)
GetOrSetStart(c, k, customTTL) ==
  /\ calls[c].pc = "idle"
  /\ \A d \in Callers : d < c => calls[d].pc # "idle"
  /\ LET S == get(Self, k)
         inFlight == {d \in Callers \ {c} : calls[d].pc = "factory" /\ calls[d].key = k}
     IN /\ Commit(S, "getOrSet", k)
        /\ calls' = [calls EXCEPT ![c] =
             IF S.ret = JSNull
             THEN [NoCall EXCEPT !.pc = "factory", !.key = k, !.ttl = customTTL,
                                 !.missed = ~HasKey(S.cache, k), !.peers = inFlight]
             ELSE [NoCall EXCEPT !.pc = "done", !.key = k, !.kind = "value",
                                 !.res = S.ret, !.peers = inFlight]]
  /\ UNCHANGED <<options, now, listeners, atDestroy, destroyed, stats>>

\* getOrSet that returns the factory's value without storing it.
FactoryResolve_noStore(c, v) ==
  /\ calls[c].pc = "factory"
  /\ Commit(Return(Self, v), "getOrSet:set", calls[c].key)
  /\ calls' = [calls EXCEPT ![c].pc = "done", ![c].kind = "value", ![c].res = v,
                            ![c].by = c, ![c].ttl = Null]
  /\ UNCHANGED <<options, now, listeners, atDestroy, destroyed, stats>>

\* getOrSet that stores the factory's value only if no live entry has been
\* stored under the key in the meantime.
FactoryResolve_ifAbsent(c, v) ==
  /\ calls[c].pc = "factory"
  /\ LET k == calls[c].key
         S == IF HasKey(cache, k) /\ ~_isExpired(MapGet(cache, k))
              THEN Self
              ELSE set(Self, k, v, calls[c].ttl)
     IN Commit(Return(S, v), "getOrSet:set", k)
  /\ calls' = [calls EXCEPT ![c].pc = "done", ![c].kind = "value", ![c].res = v,
                            ![c].by = c, ![c].ttl = Null]
  /\ UNCHANGED <<options, now, listeners, atDestroy, destroyed, stats>>

\* The factory's promise resolves with v: set(key, v, customTTL), return v.
FactoryResolve(c, v) ==
  /\ calls[c].pc = "factory"
  /\ Commit(Return(set(Self, calls[c].key, v, calls[c].ttl), v), "getOrSet:set", calls[c].key)
  /\ calls' = [calls EXCEPT ![c].pc = "done", ![c].kind = "value", ![c].res = v,
                            ![c].by = c, ![c].ttl = Null]
  /\ UNCHANGED <<options, now, listeners, atDestroy, destroyed, stats>>

\* The factory's promise rejects: errors++, emit factory_error, rethrow.
FactoryReject(c) ==
  /\ calls[c].pc = "factory"
  /\ Commit(Emit([Self EXCEPT !.metrics.errors = @ + 1, !.ret = "throw"],
                 "factory_error", calls[c].key, 0),
            "getOrSet:catch", calls[c].key)
  /\ calls' = [calls EXCEPT ![c].pc = "done", ![c].kind = "error", ![c].by = c,
                            ![c].ttl = Null]
  /\ UNCHANGED <<options, now, listeners, atDestroy, destroyed, stats>>

\* ---------------------------------------------------------------- Spec
\* The eviction examples of the spec's testable properties: on a new cache,
\* set(a), set(b), get(a), set(c), the get being a hit.
TheScript == << <<"set", "a">>, <<"set", "b">>, <<"get", "a">>, <<"set", "c">> >>
\* The idempotence examples: delete(a) twice after set(a), clear() twice after set(a).
DeleteScript == << <<"set", "a">>, <<"delete", "a">>, <<"delete", "a">> >>
ClearScript == << <<"set", "a">>, <<"clear", "">>, <<"clear", "">> >>
\* Overwriting the one key of a full cache.
OverwriteScript == << <<"set", "a">>, <<"set", "a">> >>
\* The sweep and a read meeting on one key, in either order.
SweepGetScript == << <<"set", "a">>, <<"sweep", "">>, <<"getmiss", "a">> >>
GetSweepScript == << <<"set", "a">>, <<"getmiss", "a">>, <<"sweep", "">> >>
\* An overwrite between two inserts.
RefreshScript == << <<"set", "a">>, <<"set", "b">>, <<"set", "a">>, <<"set", "c">> >>
Scripts == {TheScript, DeleteScript, ClearScript, OverwriteScript,
            SweepGetScript, GetSweepScript, RefreshScript}
Off == << <<"off", "off">> >>
OnScript(op, k) == trace # Off /\ \E s \in Scripts : IsPrefix(Append(trace, <<op, k>>), s)
TraceStep(op, k) == IF OnScript(op, k) THEN Append(trace, <<op, k>>) ELSE Off

LiveKey(k) == HasKey(cache, k) /\ ~_isExpired(MapGet(cache, k))

\* Every operation of one cache: all runs of MaxOps operations, getOrSet
\* being called by one caller at a time, and the scripts to their end.
Op(op, k, A) ==
  /\ ops < MaxOps \/ OnScript(op, k)
  /\ A
  /\ ops' = ops + 1
  /\ trace' = TraceStep(op, k)
  /\ UNCHANGED twin

Next ==
  \/ \E k \in Keys : Op(IF LiveKey(k) THEN "get" ELSE "getmiss", k, CallGet(k))
  \/ \E k \in Keys, v \in Values, t \in TTLs : Op("set", k, CallSet(k, v, t))
  \/ \E k \in Keys : Op("has", k, CallHas(k))
  \/ \E k \in Keys : Op("delete", k, CallDelete(k))
  \/ Op("clear", "", CallClear)
  \/ Op("sweep", "", Sweep)
  \/ \E k \in CallKeys, t \in TTLs : Op("getOrSet", k, GetOrSetStart(1, k, t))
  \/ \E v \in Values : Op("getOrSet:set", "", FactoryResolve(1, v))
  \/ Op("getOrSet:catch", "", FactoryReject(1))
  \/ Tick

Spec == Init /\ [][Next]_vars

\* ---------------------------------------------------------------- SpecGetOrSet
\* One getOrSet call per caller, in flight together, among MaxCallOps set
\* and get calls and the passing of time.
CallOp(A) == ops < MaxCallOps /\ A /\ ops' = ops + 1 /\ UNCHANGED <<trace, twin>>
Step(A) == A /\ UNCHANGED <<ops, trace, twin>>

NextGetOrSet ==
  \/ \E c \in Callers, k \in CallKeys, t \in TTLs : Step(GetOrSetStart(c, k, t))
  \/ \E c \in Callers, v \in Values : Step(FactoryResolve(c, v))
  \/ \E c \in Callers : Step(FactoryReject(c))
  \/ \E k \in Keys, v \in Values, t \in TTLs : CallOp(CallSet(k, v, t))
  \/ \E k \in Keys : CallOp(CallGet(k))
  \/ Tick

SpecGetOrSet == Init /\ [][NextGetOrSet]_vars

\* ---------------------------------------------------------------- SpecStats
\* getStats among reads that hit and miss, up to MaxCount counted reads.
NextStats ==
  \/ cache = <<>> /\ Step(CallSet("a", "v1", Null))
  \/ \E k \in CallKeys :
       metrics.hits + metrics.misses < MaxCount /\ Step(CallGet(k))
  \/ Step(CallGetStats)

SpecStats == Init /\ [][NextStats]_vars

\* ---------------------------------------------------------------- SpecLifecycle
\* A cache constructed with whatever strategy the caller passed, holding
\* whatever values, with handlers registered, and destroyed.
InitLifecycle ==
  /\ options \in [maxSize : MaxSizes, ttl : {Null}, strategy : AnyStrategies,
                  useLocalStorage : {FALSE}, enableMetrics : BOOLEAN]
  /\ localStorage = [items |-> {}, throws |-> FALSE]
  /\ Constructed

LifeOp(A) == ops < MaxLifeOps /\ A /\ ops' = ops + 1 /\ UNCHANGED <<trace, twin>>

NextLifecycle ==
  \/ \E k \in Keys, v \in AnyValues : LifeOp(CallSet(k, v, Null))
  \/ \E k \in Keys : LifeOp(CallGet(k))
  \/ \E k \in Keys : LifeOp(CallHas(k))
  \/ \E k \in Keys : LifeOp(CallDelete(k))
  \/ LifeOp(CallClear)
  \/ LifeOp(CallGetStats)
  \/ \E t \in ListenTypes : LifeOp(CallOn(t))
  \/ \E t \in ListenTypes : LifeOp(Unsubscribe(t))
  \/ LifeOp(CallDestroy)

SpecLifecycle == InitLifecycle /\ [][NextLifecycle]_vars

\* ---------------------------------------------------------------- SpecDurable
\* An item another cache, of namespace m, left on the same localStorage.
ForeignItem == [key |-> <<"cache", ":", "m", ":", "a">>,
                item |-> [json |-> <<"v1", 1, 1, Null>>]]

\* A cache with the localStorage mirror on, on a localStorage that holds no
\* item of its namespace (so that _loadFromLocalStorage finds nothing to
\* load) and that works or throws on every call.
InitDurable ==
  /\ options \in [maxSize : MaxSizes, ttl : CacheTTLs, strategy : Strategies,
                  useLocalStorage : {TRUE}, enableMetrics : {TRUE}]
  /\ localStorage \in [items : SUBSET {ForeignItem}, throws : BOOLEAN]
  /\ Constructed

DurableOp(A) == ops < MaxDurableOps /\ A /\ ops' = ops + 1 /\ UNCHANGED <<trace, twin>>

NextDurable ==
  \/ \E k \in Keys, v \in Values, t \in TTLs : DurableOp(CallSet(k, v, t))
  \/ \E k \in Keys : DurableOp(CallGet(k))
  \/ \E k \in Keys : DurableOp(CallDelete(k))
  \/ DurableOp(CallClear)
  \/ DurableOp(Sweep)
  \/ \E k \in Keys : DurableOp(CallHas(k))
  \/ \E k \in CallKeys : DurableOp(GetOrSetStart(1, k, Null))
  \/ \E v \in Values : DurableOp(FactoryResolve(1, v))
  \/ DurableOp(FactoryReject(1))
  \/ DurableOp(Reload)
  \/ Tick

SpecDurable == InitDurable /\ [][NextDurable]_vars

\* ---------------------------------------------------------------- SpecShared
\* The cache of namespace n sharing localStorage with the cache of
\* namespace n:x, which saves an entry for its key a.
SiblingStorageKey == <<"cache", ":", "n", ":", "x", ":">> \o KeyChars("a")

SiblingSet ==
  /\ ~localStorage.throws
  /\ localStorage' = [localStorage EXCEPT !.items =
       setItem(@, SiblingStorageKey, JSONstringify(NewEntry("a", "v1", Null)))]
  /\ last' = [op |-> "sibling:set", key |-> "a", ret |-> "true", peak |-> Len(cache)]
  /\ emitted' = <<>>
  /\ UNCHANGED <<options, cache, accessOrder, metrics, now, calls, listeners,
                  atDestroy, destroyed, stats>>

InitShared ==
  /\ options \in [maxSize : MaxSizes, ttl : {Null}, strategy : Strategies,
                  useLocalStorage : {TRUE}, enableMetrics : {TRUE}]
  /\ localStorage \in [items : SUBSET {ForeignItem}, throws : {FALSE}]
  /\ Constructed

SharedOp(A) == ops < MaxSharedOps /\ A /\ ops' = ops + 1 /\ UNCHANGED <<trace, twin>>

NextShared ==
  \/ SharedOp(SiblingSet)
  \/ \E k \in Keys, v \in Values : SharedOp(CallSet(k, v, Null))
  \/ \E k \in Keys : SharedOp(CallGet(k))
  \/ \E k \in Keys : SharedOp(CallDelete(k))
  \/ SharedOp(CallClear)
  \/ SharedOp(Reload)
  \/ Tick

SpecShared == InitShared /\ [][NextShared]_vars

\* ---------------------------------------------------------------- SpecTimer
\* The cleanup timer at work: MaxTimerOps calls of set, get and destroy,
\* the passing of time, and the setInterval callback, which the event loop
\* runs again and again for as long as the interval is installed.
InitTimer ==
  /\ options \in [maxSize : MaxSizes, ttl : CacheTTLs, strategy : Strategies,
                  useLocalStorage : {FALSE}, enableMetrics : {TRUE}]
  /\ localStorage = [items |-> {}, throws |-> FALSE]
  /\ Constructed

TimerOp(A) == ops < MaxTimerOps /\ A /\ ops' = ops + 1 /\ UNCHANGED <<trace, twin>>
TimerFires == Step(Sweep)

NextTimer ==
  \/ \E k \in CallKeys, v \in Values, t \in TTLs : TimerOp(CallSet(k, v, t))
  \/ \E k \in CallKeys : TimerOp(CallGet(k))
  \/ TimerOp(CallDestroy)
  \/ TimerFires
  \/ Tick

SpecTimer == InitTimer /\ [][NextTimer]_vars /\ WF_vars(TimerFires)

\* ---------------------------------------------------------------- SpecTwin
\* Two caches constructed with the same options but for enableMetrics, one
\* with true and one with false, on which the same calls are made at the
\* same times.
TwinSelf == [cache |-> twin.cache, accessOrder |-> twin.accessOrder,
             metrics |-> twin.metrics, items |-> {},
             enableMetrics |-> ~options.enableMetrics,
             ev |-> <<>>, ret |-> "void", peak |-> Len(twin.cache)]
TwinOf(S) == [cache |-> S.cache, accessOrder |-> S.accessOrder, metrics |-> S.metrics,
              ev |-> S.ev, ret |-> S.ret]

\* One call made on both caches: A on this one, T what it does to the other.
OnBoth(A, T) ==
  /\ ops < MaxTwinOps
  /\ A
  /\ twin' = TwinOf(T)
  /\ ops' = ops + 1
  /\ UNCHANGED trace

NextTwin ==
  \/ \E k \in CallKeys, v \in Values, t \in TTLs :
       OnBoth(CallSet(k, v, t), set(TwinSelf, k, v, t))
  \/ \E k \in CallKeys : OnBoth(CallGet(k), get(TwinSelf, k))
  \/ \E k \in CallKeys : OnBoth(CallHas(k), has(TwinSelf, k))
  \/ \E k \in CallKeys : OnBoth(CallDelete(k), delete(TwinSelf, k))
  \/ OnBoth(CallClear, clear(TwinSelf))
  \/ OnBoth(Sweep, _cleanupExpired(TwinSelf))
  \/ \E k \in CallKeys, t \in TTLs :
       OnBoth(GetOrSetStart(1, k, t), get(TwinSelf, k))
  \/ \E v \in Values :
       OnBoth(FactoryResolve(1, v),
              Return(set(TwinSelf, calls[1].key, v, calls[1].ttl), v))
  \/ OnBoth(FactoryReject(1),
            Emit([TwinSelf EXCEPT !.metrics.errors = @ + 1, !.ret = "throw"],
                 "factory_error", calls[1].key, 0))
  \/ Tick

SpecTwin == Init /\ [][NextTwin]_vars

\* ---------------------------------------------------------------- SpecWikiApi
\* WikiApi.fetchSummary (src/services/wikiApi.js) on its summaryCache.
\* The titles, as their characters: blank ones, and ones that trim to a key.
Titles == {<<>>, <<" ">>, <<"a">>, <<" ", "a">>, <<"b", " ">>}

RECURSIVE trimStart(_)
trimStart(s) == IF s # <<>> /\ Head(s) = " " THEN trimStart(Tail(s)) ELSE s
RECURSIVE trimEnd(_)
trimEnd(s) ==
  IF s # <<>> /\ s[Len(s)] = " " THEN trimEnd(SubSeq(s, 1, Len(s) - 1)) ELSE s
trim(s) == trimEnd(trimStart(s))

\* fetchSummary up to the await of the request: a blank title returns null;
\* any other calls summaryCache.getOrSet(key, factory).
FetchSummaryStart(c, title) ==
  LET key == trim(title)
  IN IF key = <<>>
     THEN /\ calls[c].pc = "idle"
          /\ \A d \in Callers : d < c => calls[d].pc # "idle"
          /\ calls' = [calls EXCEPT ![c] =
                         [NoCall EXCEPT !.pc = "done", !.kind = "value", !.res = JSNull]]
          /\ last' = [op |-> "fetchSummary", key |-> "", ret |-> JSNull, peak |-> Len(cache)]
          /\ emitted' = <<>>
          /\ UNCHANGED <<options, cache, accessOrder, metrics, now, localStorage,
                          listeners, atDestroy, destroyed, stats>>
     ELSE GetOrSetStart(c, key[1], Null)

\* The request succeeded: the factory returns the summary object.
FetchOk(c) == FactoryResolve(c, "v1")
\* The request failed (fetch rejected, or !res.ok): the factory's catch rethrows.
FetchFailed(c) == FactoryReject(c)

\* The caller has its result and is free to call again.
Settle(c) ==
  /\ calls[c].pc = "done"
  /\ calls' = [calls EXCEPT ![c] = NoCall]
  /\ UNCHANGED <<options, cache, accessOrder, metrics, now, last, emitted, localStorage,
                  listeners, atDestroy, destroyed, stats>>

\* this.summaryCache, its maxSize and ttl scaled down.
InitWikiApi ==
  /\ options = [maxSize |-> Cardinality(CallKeys), ttl |-> 1, strategy |-> "lru",
                useLocalStorage |-> FALSE, enableMetrics |-> TRUE]
  /\ localStorage = [items |-> {}, throws |-> FALSE]
  /\ Constructed

NextWikiApi ==
  \/ \E c \in Callers, t \in Titles :
       ops < MaxFetches /\ FetchSummaryStart(c, t) /\ ops' = ops + 1
         /\ UNCHANGED <<trace, twin>>
  \/ \E c \in Callers : Step(FetchOk(c))
  \/ \E c \in Callers : Step(FetchFailed(c))
  \/ \E c \in Callers : Step(Settle(c))
  \/ Tick

SpecWikiApi == InitWikiApi /\ [][NextWikiApi]_vars

\* ---------------------------------------------------------------- claims
HasEvent(evs, type) == \E i \in 1 .. Len(evs) : evs[i].type = type
EventKeys(evs, type) == {evs[i].key : i \in {j \in 1 .. Len(evs) : evs[j].type = type}}
MapIndex(c, k) == CHOOSE i \in 1 .. Len(c) : c[i].key = k

\* A getOrSet call whose factory has been called.
FactoryInvoked(c) == calls[c].pc = "factory" \/ (calls[c].pc = "done" /\ calls[c].by = c)
\* Two getOrSet calls for one key that found no live entry, the later one
\* started while the factory of the earlier one was pending.
Coalescable(c, d) ==
  /\ c # d
  /\ d \in calls[c].peers
  /\ calls[c].missed /\ calls[d].missed
\* What a finished getOrSet call gave its caller: the value, or the error object.
Outcome(c) == <<calls[c].kind, calls[c].res, IF calls[c].kind = "error" THEN calls[c].by ELSE 0>>

\* C1: of the getOrSet calls in flight together for a key with no live
\* entry, only one calls the factory.
C1_FactoryOnce ==
  \A c, d \in Callers : Coalescable(c, d) => ~(FactoryInvoked(c) /\ FactoryInvoked(d))

\* C2: getOrSet calls in flight together for a key with no live entry all
\* give their callers the same outcome, the same value or the same failure.
C2_SameOutcome ==
  \A c, d \in Callers :
    (Coalescable(c, d) /\ calls[c].pc = "done" /\ calls[d].pc = "done")
      => Outcome(c) = Outcome(d)

\* C3: the Map never holds more than maxSize entries, neither after an
\* operation nor inside set between its eviction and its insertion.
C3_Capacity == Len(cache) <= options.maxSize /\ last.peak <= options.maxSize

\* C3 witness: a set of a new key found the cache full, evicted, and inserted.
C3_Witness ==
  /\ last.op = "set"
  /\ HasEvent(emitted, "evict")
  /\ Len(cache) = options.maxSize
  /\ last.peak = options.maxSize

\* A step that is set(k, ...), called directly or by getOrSet.
SetStep(k) == last'.op \in {"set", "getOrSet:set"} /\ last'.key = k /\ HasKey(cache', k)
\* set of a new key finds the cache full.
FindsFull(k) == ~HasKey(cache, k) /\ Len(cache) >= options.maxSize

C4_Step ==
  \A k \in Keys :
    (options.strategy = "lru" /\ SetStep(k) /\ FindsFull(k)) =>
      LET h == Head(accessOrder)
      IN /\ EventKeys(emitted', "evict") = {h}
         /\ MapKeys(cache') = (MapKeys(cache) \ {h}) \cup {k}
         /\ \A j \in MapKeys(cache) :
              MapGet(cache, h).lastAccessed <= MapGet(cache, j).lastAccessed
C4_Example ==
  (options.strategy = "lru" /\ options.maxSize = 2 /\ trace = TheScript) =>
    (MapKeys(cache) = {"a", "c"} /\ (last.op = "set" => EventKeys(emitted, "evict") = {"b"}))

\* C4: under lru a set of a new key that finds the cache full evicts the head
\* of the access order and nothing else, and no stored entry was touched (by a
\* hit or a set) longer ago than the evicted one; with maxSize = 2,
\* set(a), set(b), get(a), set(c) evicts b and keeps a and c.
C4_LruEvictsHead == [][C4_Step /\ C4_Example']_vars

\* C4 witness: the example has run under lru with maxSize = 2.
C4_Witness ==
  options.strategy = "lru" /\ options.maxSize = 2 /\ trace = TheScript /\ last.op = "set"

C5_Step ==
  \A k \in Keys :
    (options.strategy = "fifo" /\ SetStep(k) /\ FindsFull(k)) =>
      \E e \in MapKeys(cache) :
        /\ EventKeys(emitted', "evict") = {e}
        /\ MapKeys(cache') = (MapKeys(cache) \ {e}) \cup {k}
        /\ \A j \in MapKeys(cache) :
             \/ MapGet(cache, e).createdAt < MapGet(cache, j).createdAt
             \/ /\ MapGet(cache, e).createdAt = MapGet(cache, j).createdAt
                /\ MapIndex(cache, e) <= MapIndex(cache, j)
C5_Example ==
  (options.strategy = "fifo" /\ options.maxSize = 2 /\ trace = TheScript) =>
    (MapKeys(cache) = {"b", "c"} /\ (last.op = "set" => EventKeys(emitted, "evict") = {"a"}))

\* C5: under fifo a set of a new key that finds the cache full evicts the
\* entry with the smallest createdAt, whatever was read since, and among
\* entries of equal createdAt the one first in the Map's insertion order; with
\* maxSize = 2, set(a), set(b), get(a), set(c) evicts a and keeps b and c.
C5_FifoEvictsOldest == [][C5_Step /\ C5_Example']_vars

\* C5 witness: the example has run under fifo with maxSize = 2, time having
\* passed between the two first sets.
C5_Witness ==
  /\ options.strategy = "fifo" /\ options.maxSize = 2 /\ trace = TheScript
  /\ last.op = "set"
  /\ MapGet(cache, "b").createdAt < MapGet(cache, "c").createdAt

\* A step that is get(k), called directly.
GetStep(k) == last'.op = "get" /\ last'.key = k
Dead(k) == HasKey(cache, k) /\ _isExpired(MapGet(cache, k))
ExpiredRead(k, counted) ==
  (GetStep(k) /\ Dead(k)) =>
    /\ last'.ret = JSNull
    /\ ~HasKey(cache', k)
    /\ k \notin SeqSet(accessOrder')
    /\ metrics'.misses = metrics.misses + counted

\* C6 as stated: get of a dead entry returns null, removes the entry from the
\* Map and from the access order, and adds one to misses.
C6_ExpiredReadCounts == [][\A k \in Keys : ExpiredRead(k, 1)]_vars

\* C6 as amended: get of a dead entry returns null, removes the entry from
\* the Map and from the access order, and adds one to misses when
\* enableMetrics is true and nothing when it is false.
C6_ExpiredReadRemoves ==
  [][\A k \in Keys : ExpiredRead(k, IF options.enableMetrics THEN 1 ELSE 0)]_vars

\* C6 witness: a get has just found a dead entry and removed it.
C6_Witness ==
  /\ last.op = "get"
  /\ HasEvent(emitted, "expired")
  /\ last.ret = JSNull
  /\ ~HasKey(cache, last.key)

\* C7: a get that finds a dead entry emits expired and no miss; a get of a
\* key that is not stored emits no expired, and emits miss when metrics are on.
C7_ExpiredNotMiss ==
  [][\A k \in Keys :
       GetStep(k) =>
         /\ Dead(k) => (HasEvent(emitted', "expired") /\ ~HasEvent(emitted', "miss"))
         /\ ~HasKey(cache, k) =>
              /\ ~HasEvent(emitted', "expired")
              /\ options.enableMetrics => HasEvent(emitted', "miss")]_vars

\* An entry of a cache without ttl that was stored without expiry.
Eternal(k) == options.ttl = Null /\ HasKey(cache, k) /\ MapGet(cache, k).expiresAt = Null
C8_Step ==
  /\ \A k \in Keys, v \in Values :
       (options.ttl = Null /\ last'.op = "set" /\ last'.key = k /\ CallSet(k, v, Null)) =>
         (MapGet(cache', k).expiresAt = Null /\ MapGet(cache', k).value = v)
  /\ \A k \in Keys :
       Eternal(k) =>
         /\ (GetStep(k) \/ (last'.op = "getOrSet" /\ last'.key = k))
              => last'.ret = MapGet(cache, k).value
         /\ ~HasKey(cache', k) =>
              \/ last'.op \in {"delete", "clear"}
              \/ k \in EventKeys(emitted', "evict")
         /\ (HasKey(cache', k) /\ ~SetStep(k)) =>
              /\ MapGet(cache', k).value = MapGet(cache, k).value
              /\ MapGet(cache', k).expiresAt = Null

\* C8: in a cache with ttl = null, set(k, v) without customTTL stores an
\* entry that never expires: whatever time passes, get(k) returns v, and the
\* entry goes only by delete, clear, eviction or a later set of k.
C8_NoTTLNeverExpires == [][C8_Step]_vars

\* C8 witness: a get returned the value of an entry without expiry, stored
\* at an earlier time.
C8_Witness ==
  /\ last.op = "get"
  /\ Eternal(last.key)
  /\ MapGet(cache, last.key).createdAt < now
  /\ last.ret = MapGet(cache, last.key).value
  /\ last.ret # JSNull

\* C9: set gives the entry expiresAt = createdAt + customTTL for every
\* customTTL >= 0 supplied; without one, createdAt + options.ttl for every
\* options.ttl >= 0; and null only when neither is given.
C9_ExpiresAt ==
  [][\A k \in Keys, v \in Values, t \in TTLs :
       (last'.op = "set" /\ last'.key = k /\ CallSet(k, v, t)) =>
         LET e == MapGet(cache', k)
         IN e.expiresAt = IF t # Null THEN e.createdAt + t
                          ELSE IF options.ttl # Null THEN e.createdAt + options.ttl
                          ELSE Null]_vars

\* C10: getOrSet(k, factory) on a live entry returns the entry's value,
\* whatever it is, does not call the factory, and counts a hit (when metrics
\* are on).
C10_HitSkipsFactory ==
  [][\A c \in Callers, k \in CallKeys :
       (LiveKey(k) /\ calls[c].pc = "idle" /\ calls'[c].pc # "idle" /\ calls'[c].key = k) =>
         /\ calls'[c].pc = "done"
         /\ calls'[c].kind = "value"
         /\ calls'[c].res = MapGet(cache, k).value
         /\ options.enableMetrics => metrics'.hits = metrics.hits + 1]_vars

\* The object as the step leaves it.
SelfAfter == [cache |-> cache', accessOrder |-> accessOrder', metrics |-> metrics',
              items |-> localStorage'.items, enableMetrics |-> options.enableMetrics,
              ev |-> <<>>, ret |-> "void", peak |-> Len(cache')]

C11_Step ==
  /\ \A c \in Callers, v \in Values :
       (calls[c].pc = "factory" /\ calls'[c].pc = "done" /\ calls'[c].kind = "value"
          /\ calls'[c].res = v) =>
         LET k == calls[c].key
             S == set(Self, k, v, calls[c].ttl)
         IN /\ last'.ret = v
            /\ cache' = S.cache /\ accessOrder' = S.accessOrder /\ metrics' = S.metrics
            /\ MapGet(cache', k).value = v
            /\ MapGet(cache', k).expiresAt = NewEntry(k, v, calls[c].ttl).expiresAt
            /\ Len(cache') <= options.maxSize
            /\ FindsFull(k) => Cardinality(EventKeys(emitted', "evict")) = 1
            /\ get(SelfAfter, k).ret = v
  /\ \A k \in Keys :
       (last.op = "getOrSet:set" /\ last.key = k /\ GetStep(k)) => last'.ret = last.ret

C12_FailureNotCached ==
  [][\A c \in Callers :
       (calls[c].pc = "factory" /\ calls'[c].kind = "error") =>
         /\ last'.ret = "throw"
         /\ calls'[c].pc = "done"
         /\ metrics'.errors = metrics.errors + 1
         /\ HasEvent(emitted', "factory_error")
         /\ cache' = cache
         /\ (last.op = "getOrSet" /\ last.key = calls[c].key)
              => ~HasKey(cache', calls[c].key)]_vars

\* A step that is delete(k), called directly.
DeleteStep(k) == last'.op = "delete" /\ last'.key = k
C13_Step ==
  \A k \in Keys :
    DeleteStep(k) =>
      IF HasKey(cache, k)
      THEN /\ last'.ret = "true"
           /\ cache' = MapDelete(cache, k)
           /\ ~HasKey(cache', k)
           /\ k \notin SeqSet(accessOrder')
           /\ SeqSet(accessOrder') = SeqSet(accessOrder) \ {k}
      ELSE /\ last'.ret = "false"
           /\ emitted' = <<>>
           /\ UNCHANGED <<cache, accessOrder, metrics, localStorage, listeners>>
C13_Example ==
  /\ (trace = SubSeq(DeleteScript, 1, 2) /\ last.op = "delete") => last.ret = "true"
  /\ trace = DeleteScript => (cache = <<>> /\ (last.op = "delete" => last.ret = "false"))

\* C13: delete(k) of a key that is not stored returns false, changes nothing
\* and emits nothing, the first time and every time after; delete(k) of a
\* stored key returns true and takes k out of the Map and of the access order.
C13_DeleteIdempotent == [][C13_Step /\ C13_Example']_vars

\* C13 witness: set(a), delete(a), delete(a) has run, the last delete
\* returning false.
C13_Witness == trace = DeleteScript /\ last.op = "delete" /\ last.ret = "false"

\* A step that is clear(), called directly.
ClearStep == last'.op = "clear"
C14_Step ==
  ClearStep =>
    /\ cache' = <<>>
    /\ accessOrder' = <<>>
    /\ emitted' = << [type |-> "clear", key |-> "", n |-> Len(cache)] >>
    /\ cache = <<>> => (emitted'[1].n = 0 /\ UNCHANGED <<cache, accessOrder, metrics>>)

C15_HasIsPure ==
  [][\A k \in Keys :
       (last'.op = "has" /\ last'.key = k) =>
         /\ UNCHANGED <<cache, accessOrder, metrics, localStorage>>
         /\ emitted' = <<>>]_vars

\* C15 witness: has has just answered false for a dead entry, which is
\* still stored.
C15_Witness == last.op = "has" /\ last.ret = "false" /\ Dead(last.key)

Abs(n) == IF n < 0 THEN -n ELSE n

\* C16: the hitRate getStats returns is hits / (hits + misses) * 100 to the
\* nearest hundredth when hits + misses > 0, and 0 when nothing was counted;
\* after 3 hits and 1 miss it is 75.
C16_HitRate ==
  (last.op = "getStats" /\ last.ret = "stats") =>
    LET h == metrics.hits
        m == metrics.misses
    IN /\ stats.hits = h /\ stats.misses = m
       /\ h + m = 0 => stats.hitRate = 0
       /\ h + m > 0 => 2 * Abs(stats.hitRate * (h + m) - h * 100 * 100) <= h + m
       /\ (h = 3 /\ m = 1) => stats.hitRate = 75 * 100

\* C16 witness: getStats has been called after 3 hits and 1 miss.
C16_Witness ==
  /\ last.op = "getStats" /\ last.ret = "stats"
  /\ metrics.hits = 3 /\ metrics.misses = 1
  /\ stats.hitRate = 75 * 100

\* C17: get, set, has, delete, clear, getStats, on and destroy return
\* normally in every state, whatever the key and the values stored.
C17_Total ==
  last.op \in {"get", "set", "has", "delete", "clear", "getStats", "on", "destroy"}
    => last.ret # "throw"

\* The handlers the events of the last operation were dispatched to.
Invoked == {t \in listeners : HasEvent(emitted, t)}

\* C18: destroy() leaves the cache empty, and no handler that was registered
\* when destroy() was called is invoked by an event of a later operation.
C18_DestroyDetaches ==
  /\ last.op = "destroy" => (cache = <<>> /\ accessOrder = <<>>)
  /\ last.op # "destroy" => atDestroy \cap Invoked = {}

\* C19: with a strategy other than lru and fifo the constructor throws, and
\* no such cache has taken a set.
C19_UnknownStrategyRejected ==
  options.strategy \notin Strategies =>
    /\ last.op = "new" => last.ret = "throw"
    /\ metrics.sets = 0
    /\ cache = <<>>

\* The durable key of k, spelled out: cache:<namespace>:<k>.
DurableKey(k) == <<"cache", ":">> \o Namespace \o <<":", k>>
ItemsAt(items, sk) == {x \in items : x.key = sk}
Mirroring == options.useLocalStorage /\ ~localStorage.throws
C20_Step ==
  Mirroring =>
    /\ \A k \in Keys :
         (last'.op = "set" /\ last'.key = k /\ last'.ret = "true") =>
           LET e == MapGet(cache', k)
           IN ItemsAt(localStorage'.items, DurableKey(k)) =
                {[key |-> DurableKey(k),
                  item |-> [json |-> <<e.value, e.createdAt, e.lastAccessed, e.expiresAt>>]]}
    /\ \A k \in Keys :
         (DeleteStep(k) /\ HasKey(cache, k)) =>
           ItemsAt(localStorage'.items, DurableKey(k)) = {}
    /\ ClearStep =>
         \A k \in Keys : ItemsAt(localStorage'.items, DurableKey(k)) = {}

\* C20: with useLocalStorage on and localStorage working, a set(k, v) that
\* returned true leaves the item cache:<namespace>:<k> holding the entry's
\* value, createdAt, lastAccessed and expiresAt; delete(k) of a stored key
\* leaves no item cache:<namespace>:<k>; clear() leaves no item of the namespace.
C20_Mirror == [][C20_Step]_vars

\* C20 witness: a second set has mirrored its entry, next to the item of
\* another namespace.
C20_Witness ==
  /\ Mirroring
  /\ last.op = "set"
  /\ metrics.sets >= 2
  /\ Len(cache) = 1
  /\ Cardinality(localStorage.items) = 2
  /\ ItemsAt(localStorage.items, DurableKey(last.key)) # {}

\* A step that constructs a new cache on the localStorage of the last one.
ReloadStep == last'.op = "new"
C21_Step ==
  (ReloadStep /\ Mirroring) =>
    \A k \in Keys :
      LET saved == ItemsAt(localStorage.items, DurableKey(k))
      IN /\ saved = {} => ~HasKey(cache', k)
         /\ \A x \in saved :
              LET j == x.item.json
              IN IF j[4] = Null \/ now <= j[4]
                 THEN /\ HasKey(cache', k)
                      /\ MapGet(cache', k).value = j[1]
                      /\ MapGet(cache', k).createdAt = j[2]
                      /\ MapGet(cache', k).lastAccessed = j[3]
                      /\ MapGet(cache', k).expiresAt = j[4]
                      /\ x \in localStorage'.items
                 ELSE /\ ~HasKey(cache', k)
                      /\ ItemsAt(localStorage'.items, DurableKey(k)) = {}

\* C21: a cache constructed with useLocalStorage on a working localStorage
\* holds, for every item cache:<namespace>:<k> whose entry is not expired,
\* an entry k with the item's value, createdAt, lastAccessed and expiresAt;
\* it holds no entry for an expired item, and has removed that item.
C21_WarmStart == [][C21_Step]_vars

\* C21 witness: a new cache, which has taken no set, holds the entry of the
\* one item of its namespace, saved at an earlier time.
C21_Witness ==
  /\ Mirroring
  /\ last.op = "new" /\ metrics.sets = 0
  /\ Len(cache) = 1
  /\ cache[1].createdAt < now
  /\ OwnItems(localStorage.items) = {[key |-> DurableKey(cache[1].key),
                                      item |-> JSONstringify(cache[1])]}

\* C22: when localStorage throws during set, delete or clear, the call
\* returns as without the mirror, the Map is changed as without the mirror,
\* and an error event is emitted.
C22_MirrorFailureEvent ==
  [][(options.useLocalStorage /\ localStorage.throws) =>
       /\ \A k \in Keys :
            (last'.op = "set" /\ last'.key = k) =>
              (last'.ret = "true" /\ HasKey(cache', k) /\ HasEvent(emitted', "error"))
       /\ \A k \in Keys :
            (DeleteStep(k) /\ HasKey(cache, k)) =>
              (last'.ret = "true" /\ ~HasKey(cache', k) /\ HasEvent(emitted', "error"))
       /\ ClearStep => (cache' = <<>> /\ HasEvent(emitted', "error"))]_vars

\* C23: fetchSummary gives null, and does not throw, for a blank title and
\* for a request that failed, and the failed request leaves no entry for the
\* title in the summary cache.
C23_SummaryNullOnFailure ==
  [][/\ \A c \in Callers :
          (calls[c].pc = "idle" /\ calls'[c].pc # "idle" /\ last'.op = "fetchSummary") =>
            (calls'[c].pc = "done" /\ calls'[c].kind = "value" /\ calls'[c].res = JSNull)
     /\ \A c \in Callers :
          (calls[c].pc = "factory" /\ calls'[c].pc = "done"
             /\ last'.op = "getOrSet:catch") =>
            /\ calls'[c].kind = "value"
            /\ calls'[c].res = JSNull
            /\ ~HasKey(cache', calls[c].key)]_vars

EventsOf(evs, type) == SelectSeq(evs, LAMBDA e : e.type = type)
C24_Step ==
  \A k \in Keys :
    (last'.op \in {"set", "getOrSet:set"} /\ last'.key = k) =>
      LET n == Len(EventsOf(emitted', "evict"))
      IN /\ n = IF ~HasKey(cache, k) /\ Len(cache) >= options.maxSize THEN 1 ELSE 0
         /\ metrics'.evictions = metrics.evictions + n
         /\ Len(cache') = Len(cache) + (IF HasKey(cache, k) THEN 0 ELSE 1) - n
         /\ HasKey(cache, k) => MapKeys(cache') = MapKeys(cache)

\* C24: a set evicts exactly one entry when its key is new and the Map
\* holds maxSize entries or more, and none otherwise: a set of a stored key
\* evicts nothing, in a full cache too.
C24_EvictsOneOrNone == [][C24_Step]_vars

\* C24 witness: in a cache with maxSize = 1, set(a) twice has evicted nothing.
C24_Witness ==
  /\ options.maxSize = 1 /\ trace = OverwriteScript /\ last.op = "set"
  /\ metrics.evictions = 0 /\ metrics.sets = 2 /\ MapKeys(cache) = {"a"}

IsLiveAt(e, t) == e.expiresAt = Null \/ t <= e.expiresAt
C25_Step ==
  \A k \in Keys :
    HasKey(cache, k) =>
      LET e == MapGet(cache, k)
      IN /\ GetStep(k) => last'.ret = IF IsLiveAt(e, now) THEN e.value ELSE JSNull
         /\ (last'.op = "has" /\ last'.key = k) =>
              /\ last'.ret = IF IsLiveAt(e, now) THEN "true" ELSE "false"
              /\ HasKey(cache', k)

\* C25: for a stored entry, get returns its value and has returns true
\* exactly when expiresAt is null or now <= expiresAt (at now = expiresAt
\* too); otherwise get returns null and has returns false, has leaving the
\* entry stored.
C25_LiveUntilExpiresAt == [][C25_Step]_vars

\* C25 witness: has has answered true at the very instant expiresAt.
C25_Witness ==
  /\ last.op = "has" /\ last.ret = "true"
  /\ MapGet(cache, last.key).expiresAt = now

C26_Step ==
  \A k \in Keys :
    /\ (HasKey(cache, k) /\ HasKey(cache', k) /\ ~SetStep(k)) =>
         /\ MapGet(cache', k).createdAt = MapGet(cache, k).createdAt
         /\ MapGet(cache', k).expiresAt = MapGet(cache, k).expiresAt
    /\ SetStep(k) => MapGet(cache', k).createdAt = now

\* C26: the createdAt and expiresAt of a stored entry stay as set made them
\* through every get, has and getOrSet on its key and every other operation
\* that keeps the entry; a set of the key gives it a new createdAt.
C26_NoRenewalOnRead == [][C26_Step]_vars

\* C26 witness: a get has hit an entry with an expiresAt, stored earlier.
C26_Witness ==
  /\ last.op = "get" /\ last.ret # JSNull /\ HasKey(cache, last.key)
  /\ MapGet(cache, last.key).expiresAt # Null
  /\ MapGet(cache, last.key).createdAt < now
  /\ MapGet(cache, last.key).lastAccessed = now

\* C27: the access order holds exactly the keys of the Map, each once.
C27_OrderMatchesMap ==
  /\ SeqSet(accessOrder) = MapKeys(cache)
  /\ Len(accessOrder) = Len(cache)
  /\ Cardinality(SeqSet(accessOrder)) = Len(accessOrder)

\* C27 witness: a new cache has loaded two entries from localStorage.
C27_Witness ==
  /\ last.op = "new" /\ metrics.sets = 0
  /\ Len(cache) = 2 /\ Len(accessOrder) = 2

C28_Step ==
  \A k \in Keys :
    (\/ (GetStep(k) \/ (last'.op = "getOrSet" /\ last'.key = k)) /\ LiveKey(k)
     \/ SetStep(k)) =>
      /\ accessOrder' # <<>>
      /\ accessOrder'[Len(accessOrder')] = k
      /\ SelectSeq(accessOrder', LAMBDA x : x # k)
           = SelectSeq(accessOrder, LAMBDA x : x # k /\ HasKey(cache', x))

\* C28: after a get or getOrSet that found a live entry of k, and after a
\* set of k, k is the last key of the access order, and the keys that remain
\* stored are in the order they were in.
C28_TouchedKeyLast == [][C28_Step]_vars

\* C28 witness: a get has hit the first key of the Map, which is now the
\* last of the access order.
C28_Witness ==
  /\ last.op = "get" /\ last.ret # JSNull
  /\ Len(cache) = 2 /\ cache[1].key = last.key
  /\ accessOrder = <<cache[2].key, cache[1].key>>

\* C29: no step lowers hits, misses, sets, evictions or errors, and clear()
\* empties the Map and leaves the five as they are.
C29_CountersMonotonic ==
  [][/\ \A f \in DOMAIN metrics : metrics'[f] >= metrics[f]
     /\ ClearStep => (metrics' = metrics /\ cache' = <<>>)]_vars

\* C29 witness: a clear has removed entries from a cache that had counted
\* sets and reads.
C29_Witness ==
  /\ last.op = "clear" /\ cache = <<>>
  /\ emitted[1].n >= 1
  /\ metrics.sets >= 1 /\ metrics.hits + metrics.misses >= 1

SweepStep == last'.op = "sweep"
SweepRemoves(always) ==
  SweepStep =>
    LET removed == Len(cache) - Len(cache')
        cleanups == EventsOf(emitted', "cleanup")
    IN /\ cache' = SelectSeq(cache, LAMBDA e : IsLiveAt(e, now))
       /\ IF always \/ removed > 0
          THEN Len(cleanups) = 1 /\ cleanups[1].n = removed
          ELSE cleanups = <<>>

\* C30 as stated: a run of the sweep removes the dead entries and no live
\* one, and emits one cleanup event carrying the number removed.
C30_SweepAlwaysReports == [][SweepRemoves(TRUE)]_vars

\* C30 as amended: a run of the sweep removes the dead entries and no live
\* one; it emits one cleanup event carrying the number removed when it
\* removed an entry, and no cleanup event when it removed none.
C30_SweepReportsRemovals == [][SweepRemoves(FALSE)]_vars

\* C30 witness: a sweep has removed a dead entry and kept a live one.
C30_Witness ==
  /\ last.op = "sweep"
  /\ Len(EventsOf(emitted, "cleanup")) = 1
  /\ Len(cache) >= 1

\* C31: the sweep and a get that meet on one dead key, in either order, do
\* not fail; the entry is removed by the first of the two and by it alone,
\* the get returns null, and the expiry is reported once: by the sweep's
\* cleanup count or by the get's expired event, never by both, and never
\* as an eviction.
KeyEvents(evs, type, k) == SelectSeq(evs, LAMBDA e : e.type = type /\ e.key = k)
SweptBefore(k) == last.op = "sweep" /\ k \in EventKeys(emitted, "delete")
ExpiredBefore(k) == last.op = "get" /\ last.key = k /\ k \in EventKeys(emitted, "expired")
C31_Step ==
  \A k \in Keys :
    /\ (SweepStep /\ Dead(k)) =>
         /\ last'.ret # "throw"
         /\ ~HasKey(cache', k)
         /\ Len(KeyEvents(emitted', "delete", k)) = 1
         /\ ~HasEvent(emitted', "expired")
         /\ metrics'.evictions = metrics.evictions
    /\ (GetStep(k) /\ SweptBefore(k)) =>
         /\ last'.ret = JSNull
         /\ cache' = cache
         /\ accessOrder' = accessOrder
         /\ ~HasEvent(emitted', "expired")
         /\ ~HasEvent(emitted', "delete")
         /\ metrics'.evictions = metrics.evictions
    /\ (GetStep(k) /\ Dead(k)) =>
         /\ last'.ret = JSNull
         /\ ~HasKey(cache', k)
         /\ Len(EventsOf(emitted', "expired")) = 1
         /\ ~HasEvent(emitted', "cleanup")
         /\ metrics'.evictions = metrics.evictions
    /\ (SweepStep /\ ExpiredBefore(k)) =>
         /\ last'.ret # "throw"
         /\ ~HasKey(cache', k)
         /\ k \notin EventKeys(emitted', "delete")
         /\ \A i \in 1 .. Len(emitted') :
              emitted'[i].type = "cleanup" => emitted'[i].n = Len(cache) - Len(cache')
         /\ metrics'.evictions = metrics.evictions
C31_SweepAndGet == [][C31_Step]_vars
\* set(a), then the sweep removes the dead a, then get(a) finds nothing to expire.
C31_Witness ==
  /\ trace = SweepGetScript
  /\ last.op = "get"
  /\ last.ret = JSNull
  /\ ~HasEvent(emitted, "expired")
  /\ ~HasKey(cache, "a")

\* C32: every eviction emits one evict event and adds one to evictions, and
\* the key is still stored when the event is emitted; so each step adds to
\* evictions the number of evict events it emits.
C32_Step ==
  LET evicts == EventsOf(emitted', "evict")
  IN /\ metrics'.evictions = metrics.evictions + Len(evicts)
     /\ \A i \in 1 .. Len(evicts) :
          /\ evicts[i].n = 1
          /\ HasKey(cache, evicts[i].key)
          /\ ~HasKey(cache', evicts[i].key)
C32_EvictBeforeRemoval == [][C32_Step]_vars

\* C33: with the mirror on, the localStorage items of the namespace are the
\* items of stored keys only (so an evicted or expired-on-read entry has no
\* item left), and a new cache on the same localStorage loads no key the
\* previous one had removed.
DurableKeys == {CacheKeyOf(x.key) : x \in OwnItems(localStorage.items)}
C33_Step ==
  /\ Mirroring' => DurableKeys' \subseteq MapKeys(cache')
  /\ (ReloadStep /\ Mirroring) => MapKeys(cache') \subseteq MapKeys(cache)
C33_DurableWithinMemory == [][C33_Step]_vars

\* C34: a constructed cache holds at most maxSize entries whatever
\* localStorage holds, and so does the cache after every later set.
C34_WarmCapacity ==
  last.op \in {"new", "set", "getOrSet:set"} => Len(cache) <= options.maxSize

\* C35: no operation of the cache of namespace n loads or removes an item
\* that a cache of another namespace wrote, n:x included: the items of the
\* other caches stay as they are and the Map holds keys of its own only.
OthersItems ==
  {x \in localStorage.items : x.key \in {ForeignItem.key, SiblingStorageKey}}
C35_Step ==
  last'.op # "sibling:set" =>
    /\ OthersItems \subseteq localStorage'.items
    /\ MapKeys(cache') \subseteq Keys
C35_NamespaceIsolation == [][C35_Step]_vars

\* C36: an entry that is dead does not stay in the Map for ever, even if
\* nothing reads, sets or deletes its key again, whether its TTL is the
\* cache's or a custom one in a cache without ttl.
C36_DeadIsRemoved == \A k \in CallKeys : Dead(k) ~> ~Dead(k)

\* C37: after destroy() the cleanup timer does not run again: no step of a
\* destroyed cache is a sweep.
C37_Step == destroyed => ~SweepStep
C37_DestroyStopsSweep == [][C37_Step]_vars

\* C38: when the factory of a getOrSet(k, factory) resolves with v while a
\* live entry is stored under k (another caller stored it in the meantime),
\* v is stored all the same: it replaces the entry in place, as a set at
\* that instant, nothing is evicted, and a get(k) afterwards returns v, the
\* value of the last writer.
C38_Step ==
  \A c \in Callers, v \in Values :
    (calls[c].pc = "factory" /\ calls'[c].pc = "done" /\ calls'[c].kind = "value"
       /\ calls'[c].res = v /\ LiveKey(calls[c].key)) =>
      LET k == calls[c].key
          e == MapGet(cache', k)
      IN /\ HasKey(cache', k)
         /\ e.value = v
         /\ e.createdAt = now
         /\ MapKeys(cache') = MapKeys(cache)
         /\ MapIndex(cache', k) = MapIndex(cache, k)
         /\ metrics'.sets = metrics.sets + 1
         /\ ~HasEvent(emitted', "evict")
         /\ get(SelfAfter, k).ret = v
C38_LastWriterWins == [][C38_Step]_vars
\* Two getOrSet calls for one key have both stored their factory's value at
\* the same instant without an eviction, the values differ, and the Map
\* holds the value of the one that resolved last.
C38_Witness ==
  /\ last.op = "getOrSet:set"
  /\ now = 1
  /\ metrics.evictions = 0
  /\ \A c \in Callers : calls[c].pc = "done" /\ calls[c].by = c /\ calls[c].key = last.key
  /\ calls[1].res # calls[2].res
  /\ MapGet(cache, last.key).value = last.ret

\* C39: under fifo an overwritten key is as new as its overwrite: the entry
\* set writes over a present key has createdAt = now, and in a cache of
\* maxSize 2, after set(a), set(b), set(a) with the second set(a) at a later
\* timestamp than set(b), set(c) evicts b and keeps a and c.
C39_Step ==
  /\ \A k \in Keys :
       (SetStep(k) /\ HasKey(cache, k)) => MapGet(cache', k).createdAt = now
  /\ (/\ options.strategy = "fifo" /\ options.maxSize = 2
      /\ trace = SubSeq(RefreshScript, 1, 3) /\ trace' = RefreshScript
      /\ MapGet(cache, "a").createdAt # MapGet(cache, "b").createdAt) =>
       /\ EventKeys(emitted', "evict") = {"b"}
       /\ MapKeys(cache') = {"a", "c"}
C39_FifoOverwriteIsNewest == [][C39_Step]_vars
\* The four sets have run under fifo with maxSize 2, a overwritten after
\* time passed, and the last one evicted b.
C39_Witness ==
  /\ options.strategy = "fifo" /\ options.maxSize = 2
  /\ trace = RefreshScript
  /\ last.op = "set"
  /\ EventKeys(emitted, "evict") = {"b"}
  /\ MapKeys(cache) = {"a", "c"}
  /\ MapGet(cache, "a").createdAt > 1

\* C40: two caches that differ in enableMetrics only and receive the same
\* calls hold the same entries in the same Map order, the same access order
\* and the same sets, evictions and errors counters, return the same values
\* and emit the same events but for hit and miss; in the one with
\* enableMetrics false, hits and misses stay 0 and no hit or miss is emitted.
Quiet(evs) == SelectSeq(evs, LAMBDA e : e.type \notin {"hit", "miss"})
Unmetered ==
  IF options.enableMetrics THEN [metrics |-> twin.metrics, ev |-> twin.ev]
                           ELSE [metrics |-> metrics, ev |-> emitted]
C40_MetricsOnlyObserve ==
  /\ twin.cache = cache
  /\ twin.accessOrder = accessOrder
  /\ twin.metrics.sets = metrics.sets
  /\ twin.metrics.evictions = metrics.evictions
  /\ twin.metrics.errors = metrics.errors
  /\ last.op # "tick" => (twin.ret = last.ret /\ Quiet(twin.ev) = Quiet(emitted))
  /\ Unmetered.metrics.hits = 0
  /\ Unmetered.metrics.misses = 0
  /\ last.op # "tick" => Quiet(Unmetered.ev) = Unmetered.ev
\* A read has just hit on both caches after an eviction on both, and only
\* one of them has counted the hit.
C40_Witness ==
  /\ last.op = "get"
  /\ last.ret # JSNull
  /\ twin.ret = last.ret
  /\ metrics.evictions > 0
  /\ twin.metrics.evictions > 0
  /\ metrics.hits # twin.metrics.hits
====
